---- MODULE Spec2Model ----
(***************************************************************************)
(* Scroll containers and scrollbars of bevy_feathers                       *)
(* (crates/bevy_feathers/src/controls/scroll.rs).                          *)
(*                                                                         *)
(* Numbers: sizes, offsets and deltas are f32 in the source.  They are     *)
(* modelled as exact integers (pixels) and exact rationals (percentages),  *)
(* i.e. f32 rounding is not modelled.  A rational is a pair <<n, d>> with  *)
(* d > 0 in lowest terms.                                                  *)
(***************************************************************************)
EXTENDS Integers, Sequences, FiniteSets, TLC, Bags

\* ----------------------------------------------------------------- bounds
\* The presses of the screenshot key in one run.
MaxKeyPresses == 2

\* Number of Pointer<Scroll> events delivered in one run.
MaxEvents == 2
\* Number of layout passes (changes of a ComputedNode) in one run.
MaxLayouts == 2

\* ------------------------------------------------------ program constants

SCROLLBAR_MIN_THUMB_SIZE == 10
LINE_HEIGHT == 21
\* The magnitude under which a delta is taken to be in line units.
LINE_THRESHOLD == 10
\* The length in percent a thumb is spawned with.
SPAWN_THUMB_PERCENT == 20

\* ------------------------------------------------------------ arithmetic

Abs(a) == IF a < 0 THEN -a ELSE a

RECURSIVE GCD(_, _)
GCD(a, b) == IF b = 0 THEN a ELSE GCD(b, a % b)

\* The rational n/d (d > 0) in lowest terms.
Rat(n, d) ==
    LET g == GCD(Abs(n), d) IN <<n \div g, d \div g>>

RatInt(a) == <<a, 1>>
RatLE(p, q) == p[1] * q[2] <= q[1] * p[2]
RatLT(p, q) == p[1] * q[2] < q[1] * p[2]
RatMul(p, q) == Rat(p[1] * q[1], p[2] * q[2])
RatSub(p, q) == Rat(p[1] * q[2] - q[1] * p[2], p[2] * q[2])
\* f32::max
RatMax(p, q) == IF RatLE(p, q) THEN q ELSE p
\* f32::clamp on rationals, used with min <= max only
RatClamp(p, lo, hi) == IF RatLT(p, lo) THEN lo ELSE IF RatLT(hi, p) THEN hi ELSE p

\* Mutant of Clamp: the upper bound is not applied.
ClampLowerOnly(a, lo, hi) == IF a < lo THEN lo ELSE a

\* f32::clamp(self, min, max): it panics when min > max.
ClampPanics(lo, hi) == lo > hi
Clamp(a, lo, hi) == IF a < lo THEN lo ELSE IF a > hi THEN hi ELSE a

\* ------------------------------------------------------------------ data

Containers == {"a", "b"}
\* The containers that get spawned in a world of one scroll container.
OneContainer == {"a"}

\* bevy_ui::OverflowAxis, of which the code tests only Scroll.
OverflowAxis == {"Visible", "Clip", "Scroll"}

\* bevy_ui::Val, as far as the thumbs use it.
Auto == [kind |-> "Auto", pct |-> <<0, 1>>]
Percent(r) == [kind |-> "Percent", pct |-> r]

\* ScrollProps as the constructors vertical, horizontal, both and default
\* make them, with show_scrollbars either way.
ScrollProps ==
    [overflow_x : OverflowAxis, overflow_y : OverflowAxis, show_scrollbars : BOOLEAN]

\* ComputedNode::default(): no size, no content, scale factor 1.
DefaultComputed == [content |-> <<0, 0>>, size |-> <<0, 0>>, inv |-> 1]

\* The layouts the engine may compute for a container: content_size(),
\* size() (physical pixels) and inverse_scale_factor().
Layouts ==
    { [content |-> <<300, 1000>>, size |-> <<200, 200>>, inv |-> 1],
      [content |-> <<200, 200>>, size |-> <<200, 200>>, inv |-> 1],
      [content |-> <<100, 100>>, size |-> <<200, 200>>, inv |-> 1],
      [content |-> <<100, 1000>>, size |-> <<200, 200>>, inv |-> 1],
      [content |-> <<4000, 250>>, size |-> <<200, 200>>, inv |-> 2] }

\* The Pointer<Scroll> events (event.x, event.y) delivered to a container.
ScrollEvents ==
    { <<0, -5>>, <<0, 5>>, <<-5, 0>>, <<5, 0>>, <<-5, -5>>, <<5, 5>>, <<0, 0>>,
      <<0, -10>>, <<-5, -10>>, <<0, -1000>>, <<-1000, 0>> }

NoThumb == [alive |-> FALSE, length |-> Auto, offset |-> Auto]

VARIABLES
    alive,            \* the containers spawned and not despawned
    wrapper,          \* the wrapper of each container: "none", "alive", "despawned"
    scrollbars,       \* the scrollbar entities spawned by spawn_scrollbars, a bag
    overflow,         \* Node.overflow of each container
    show_scrollbars,  \* ScrollContainer.show_scrollbars
    computed,         \* ComputedNode of each container
    scroll_position,  \* ScrollPosition of each container, <<x, y>>
    added,            \* Added<ScrollContainer> still to be seen by spawn_scrollbars
    v_scrollbar,      \* the container has the VScrollbar component
    h_scrollbar,      \* the container has the HScrollbar component
    v_thumb,          \* the thumb VScrollbar names: Node.height, Node.top
    h_thumb,          \* the thumb HScrollbar names: Node.width, Node.left
    commands,         \* the deferred commands of spawn_scrollbars
    ran,              \* the systems of PostUpdate that ran in this pass
    panicked,         \* a handler panicked: the app is gone
    n_events,         \* Pointer<Scroll> events delivered so far
    n_layouts,        \* layout passes so far
    last              \* the step taken last, with the offset it found

\* The state of the scroll containers (controls/scroll.rs).
scroll_vars == <<alive, wrapper, scrollbars, overflow, show_scrollbars, computed, scroll_position, added,
                 v_scrollbar, h_scrollbar, v_thumb, h_thumb, commands, ran, panicked,
                 n_events, n_layouts, last>>

\* The dropdowns (controls/dropdown.rs).
VARIABLES
    child_of,         \* ChildOf of every entity: its parent, or "none"
    dropdown,         \* the Dropdown component of each dropdown: is_open, selected
    dropdown_changed, \* Changed<Dropdown> not yet seen by update_dropdown_visibility
    trigger_text,     \* Text of the DropdownTriggerText below each dropdown
    options_display,  \* Node.display of the DropdownOptions child of each dropdown
    walk,             \* on_option_click: where its loop is, `current` and the option
    value_changes,    \* the ValueChange events the handler running last emitted
    dropdown_last     \* the handler that took the last step and its entity

dropdown_vars == <<child_of, dropdown, dropdown_changed, trigger_text, options_display,
                   walk, value_changes, dropdown_last>>

\* The raytracing scene of bevy_solari (scene/mod.rs, scene/extract.rs).
VARIABLES
    features_ok,          \* the RenderDevice has SolariPlugins::required_wgpu_features()
    solari_material,      \* the app uses add_solari_material / SolariMaterialPlugin
    finished,             \* the registrations of the app's build that have run
    extract_systems,      \* the systems added to ExtractSchedule of the RenderApp
    clear_before_extract, \* configure_sets: Clear before Extract
    store_initialised,    \* the resource RaytracingMaterialAssets exists
    raytracing_materials, \* RaytracingMaterialAssets: UntypedAssetId -> StandardMaterial
    standard_assets,      \* Assets<StandardMaterial> of the main world
    extended_assets,      \* Assets<ExtendedMaterial<StandardMaterial, E>> of the main world
    extracted_instances,  \* ExtractedRaytracingMaterial of the render entities
    extract_ran,          \* the systems that ran in the extract pass under way
    render_panicked,      \* a system of the RenderApp panicked
    solari_last           \* the step taken last

solari_vars == <<features_ok, solari_material, finished, extract_systems,
                 clear_before_extract, store_initialised, raytracing_materials,
                 standard_assets, extended_assets, extracted_instances, extract_ran,
                 render_panicked, solari_last>>

\* The screenshot helper of the examples (examples/helpers/screenshot.rs).
VARIABLES
    plugin,            \* ScreenshotPlugin: path, timer (is it Some), exit
    screenshot_timer,  \* the resource ScreenshotTimer: exists, seconds left, exit
    counter,           \* Local<u32> of take_screenshot
    screenshots,       \* the Screenshot entities spawned, in the order of the requests
    saved,             \* the paths save_to_disk wrote, in the order of the captures
    exit_messages,     \* the number of AppExit messages written
    screenshot_last    \* the step taken last

screenshot_vars == <<plugin, screenshot_timer, counter, screenshots, saved, exit_messages,
                     screenshot_last>>

vars == <<scroll_vars, dropdown_vars, solari_vars, screenshot_vars>>

\* What a step of one unit leaves alone: the state of the other units.
outside_scroll == <<dropdown_vars, solari_vars, screenshot_vars>>
outside_dropdown == <<scroll_vars, solari_vars, screenshot_vars>>
outside_solari == <<scroll_vars, dropdown_vars, screenshot_vars>>
outside_screenshot == <<scroll_vars, dropdown_vars, solari_vars>>

\* What `last` records: the step, the container it was about, the event
\* and the ScrollPosition of that container before the step.
Step(op, c, ev, pos) == [op |-> op, c |-> c, ev |-> ev, pos |-> pos]
\* Any step other than scroll_observer.
OtherStep == Step("other", "a", <<0, 0>>, <<0, 0>>)
\* --------------------------------------------------------- scroll_observer

\* let mut delta = -Vec2::new(event.x, event.y)
Delta(ev) == <<-ev[1], -ev[2]>>

\* Mutant of Scaled: no conversion of line units.
ScaledNever(d) == d

\* Mutant of Scaled: each component is converted on its own magnitude.
ScaledPerComponent(d) ==
    <<IF Abs(d[1]) < LINE_THRESHOLD THEN d[1] * LINE_HEIGHT ELSE d[1],
      IF Abs(d[2]) < LINE_THRESHOLD THEN d[2] * LINE_HEIGHT ELSE d[2]>>

\* Line units to pixels: both components under the threshold.
Scaled(d) ==
    IF Abs(d[1]) < LINE_THRESHOLD /\ Abs(d[2]) < LINE_THRESHOLD
    THEN <<d[1] * LINE_HEIGHT, d[2] * LINE_HEIGHT>>
    ELSE d

\* Mutant of Redirected: the redirection also goes from x to y.
RedirectedBothWays(ov, d) ==
    IF ov.x = "Scroll" /\ ov.y # "Scroll" /\ d[1] = 0 /\ d[2] # 0
    THEN <<d[2], 0>>
    ELSE IF ov.y = "Scroll" /\ ov.x # "Scroll" /\ d[2] = 0 /\ d[1] # 0
         THEN <<0, d[1]>>
         ELSE d

\* Only horizontal scrolling enabled and a purely vertical delta: the
\* vertical scroll becomes a horizontal one.
Redirected(ov, d) ==
    IF ov.x = "Scroll" /\ ov.y # "Scroll" /\ d[1] = 0 /\ d[2] # 0
    THEN <<d[2], 0>>
    ELSE d

\* The delta the two axis blocks see.
EffectiveDelta(ov, ev) == Redirected(ov, Scaled(Delta(ev)))

\* (computed.content_size() - computed.size()) * computed.inverse_scale_factor()
MaxOffset(cn) ==
    <<(cn.content[1] - cn.size[1]) * cn.inv, (cn.content[2] - cn.size[2]) * cn.inv>>

\* Mutant of AtLimit: the offset is never taken to be at its limit.
AtLimitNever(pos, d, max) == FALSE

\* if delta > 0. { position >= max_offset } else { position <= 0. }
AtLimit(pos, d, max) == IF d > 0 THEN pos >= max ELSE pos <= 0

\* Mutant of AxisMoves: every axis that is not Visible counts as scrollable.
AxisMovesUnlessVisible(axis, pos, d, max) ==
    axis # "Visible" /\ d # 0 /\ ~AtLimit(pos, d, max)

\* The axis block is entered and the offset is rewritten.
AxisMoves(axis, pos, d, max) == axis = "Scroll" /\ d # 0 /\ ~AtLimit(pos, d, max)

\* The rewrite calls clamp(0., max) with max < 0.
AxisPanics(axis, pos, d, max) == AxisMoves(axis, pos, d, max) /\ ClampPanics(0, max)

AxisOffset(axis, pos, d, max) ==
    IF AxisMoves(axis, pos, d, max) THEN Clamp(pos + d, 0, max) ELSE pos

\* The two axis blocks (lines 415-439) on the delta d: whether one of them
\* panics, and the ScrollPosition they leave.  x is handled, and written,
\* before y; a panic in the x block leaves y unhandled.
BlocksPanic(ov, pos, cn, d) ==
    \/ AxisPanics(ov.x, pos[1], d[1], MaxOffset(cn)[1])
    \/ AxisPanics(ov.y, pos[2], d[2], MaxOffset(cn)[2])

AxisBlocks(ov, pos, cn, d) ==
    LET m == MaxOffset(cn) IN
    IF AxisPanics(ov.x, pos[1], d[1], m[1]) THEN pos
    ELSE IF AxisPanics(ov.y, pos[2], d[2], m[2])
         THEN <<AxisOffset(ov.x, pos[1], d[1], m[1]), pos[2]>>
         ELSE <<AxisOffset(ov.x, pos[1], d[1], m[1]),
                AxisOffset(ov.y, pos[2], d[2], m[2])>>

\* The ScrollPosition scroll_observer leaves for the event ev.
ObserverPosition(ov, pos, cn, ev) == AxisBlocks(ov, pos, cn, EffectiveDelta(ov, ev))

ObserverPanics(ov, pos, cn, ev) == BlocksPanic(ov, pos, cn, EffectiveDelta(ov, ev))

\* Mutant of scroll_observer: the event moves every container.
scroll_observer_every_container(c, ev) ==
    /\ ~panicked
    /\ ran = {}
    /\ n_events < MaxEvents
    /\ n_events' = n_events + 1
    /\ IF alive[c]
       THEN /\ scroll_position' =
                 [k \in Containers |->
                    IF alive[k]
                    THEN ObserverPosition(overflow[k], scroll_position[k], computed[k], ev)
                    ELSE scroll_position[k]]
            /\ panicked' = ObserverPanics(overflow[c], scroll_position[c], computed[c], ev)
            /\ last' = Step("scroll_observer", c, ev, scroll_position[c])
       ELSE /\ UNCHANGED <<scroll_position, panicked>>
            /\ last' = Step("query_miss", c, ev, scroll_position[c])
    /\ UNCHANGED <<alive, wrapper, scrollbars, overflow, show_scrollbars, computed,
                   added, v_scrollbar, h_scrollbar, v_thumb, h_thumb, commands, ran,
                   n_layouts>>
    /\ UNCHANGED outside_scroll

scroll_observer(c, ev) ==
    /\ ~panicked
    /\ ran = {}
    /\ n_events < MaxEvents
    /\ n_events' = n_events + 1
    /\ IF alive[c]
       THEN /\ scroll_position' =
                 [scroll_position EXCEPT
                    ![c] = ObserverPosition(overflow[c], scroll_position[c], computed[c], ev)]
            /\ panicked' = ObserverPanics(overflow[c], scroll_position[c], computed[c], ev)
            /\ last' = Step("scroll_observer", c, ev, scroll_position[c])
       ELSE \* query.get_mut(scroll.entity) fails: return
            /\ UNCHANGED <<scroll_position, panicked>>
            /\ last' = Step("query_miss", c, ev, scroll_position[c])
    /\ UNCHANGED <<alive, wrapper, scrollbars, overflow, show_scrollbars, computed,
                   added, v_scrollbar, h_scrollbar, v_thumb, h_thumb, commands, ran,
                   n_layouts>>
    /\ UNCHANGED outside_scroll

\* ------------------------------------------------------------ the engine

\* scroll(props, ..) is spawned: the container of the bundle, as a child of
\* its wrapper, with ScrollPosition::default() and no layout yet.
\* Entities are allocated in order: "a" before "b".
SpawnScroll(c, props) ==
    /\ ~panicked
    /\ ran = {}
    /\ wrapper[c] = "none"
    /\ c = "b" => wrapper["a"] # "none"
    /\ alive' = [alive EXCEPT ![c] = TRUE]
    /\ wrapper' = [wrapper EXCEPT ![c] = "alive"]
    /\ overflow' = [overflow EXCEPT ![c] = [x |-> props.overflow_x, y |-> props.overflow_y]]
    /\ show_scrollbars' = [show_scrollbars EXCEPT ![c] = props.show_scrollbars]
    /\ added' = [added EXCEPT ![c] = TRUE]
    /\ last' = OtherStep
    /\ UNCHANGED <<scrollbars, computed, scroll_position, v_scrollbar, h_scrollbar,
                   v_thumb, h_thumb, commands, ran, panicked, n_events, n_layouts>>
    /\ UNCHANGED outside_scroll

\* The engine's layout pass gives a container a new ComputedNode.
Layout(c, l) ==
    /\ ~panicked
    /\ ran = {}
    /\ alive[c]
    /\ n_layouts < MaxLayouts
    /\ l # computed[c]
    /\ n_layouts' = n_layouts + 1
    /\ computed' = [computed EXCEPT ![c] = l]
    /\ last' = OtherStep
    /\ UNCHANGED <<alive, wrapper, scrollbars, overflow, show_scrollbars,
                   scroll_position, added, v_scrollbar, h_scrollbar, v_thumb, h_thumb,
                   commands, ran, panicked, n_events>>
    /\ UNCHANGED outside_scroll

\* Node.overflow of a container is changed after it was spawned: the axis
\* becomes scrollable.
SetOverflow(c, axis) ==
    /\ ~panicked
    /\ ran = {}
    /\ alive[c]
    /\ IF axis = "V" THEN overflow[c].y # "Scroll" ELSE overflow[c].x # "Scroll"
    /\ overflow' = [overflow EXCEPT
                      ![c] = IF axis = "V" THEN [@ EXCEPT !.y = "Scroll"]
                                           ELSE [@ EXCEPT !.x = "Scroll"]]
    /\ last' = OtherStep
    /\ UNCHANGED <<alive, wrapper, scrollbars, show_scrollbars, computed,
                   scroll_position, added, v_scrollbar, h_scrollbar, v_thumb, h_thumb,
                   commands, ran, panicked, n_events, n_layouts>>
    /\ UNCHANGED outside_scroll

\* The scrollbars that are children of one of the entities in `parents`:
\* despawning an entity despawns its children with it.
ChildrenOf(parents) == {sb \in DOMAIN scrollbars : sb.parent \in parents}

\* The bag of scrollbars without those in `removed`.
Without(removed) == [sb \in (DOMAIN scrollbars) \ removed |-> scrollbars[sb]]

\* A thumb is a child of its scrollbar and goes with it.
ThumbsAfter(thumb, axis, removed) ==
    [k \in Containers |->
        IF \E sb \in removed : sb.target = k /\ sb.orientation = axis
        THEN [thumb[k] EXCEPT !.alive = FALSE]
        ELSE thumb[k]]

\* The entities of container c that go when the entities `parents` are
\* despawned: the container's components, the scrollbars below, their thumbs.
Despawned(c, parents) ==
    /\ alive' = [alive EXCEPT ![c] = FALSE]
    /\ added' = [added EXCEPT ![c] = FALSE]
    /\ v_scrollbar' = [v_scrollbar EXCEPT ![c] = FALSE]
    /\ h_scrollbar' = [h_scrollbar EXCEPT ![c] = FALSE]
    /\ scrollbars' = Without(ChildrenOf(parents))
    /\ v_thumb' = ThumbsAfter(v_thumb, "V", ChildrenOf(parents))
    /\ h_thumb' = ThumbsAfter(h_thumb, "H", ChildrenOf(parents))

\* The container entity alone is despawned, its wrapper stays.
DespawnContainer(c) ==
    /\ ~panicked
    /\ ran = {}
    /\ alive[c]
    /\ Despawned(c, {<<"container", c>>})
    /\ last' = OtherStep
    /\ UNCHANGED <<wrapper, overflow, show_scrollbars, computed, scroll_position,
                   commands, ran, panicked, n_events, n_layouts>>
    /\ UNCHANGED outside_scroll

\* The wrapper is despawned, and its children with it: the container and
\* the scrollbars added to it.
DespawnWrapper(c) ==
    /\ ~panicked
    /\ ran = {}
    /\ wrapper[c] = "alive"
    /\ wrapper' = [wrapper EXCEPT ![c] = "despawned"]
    /\ Despawned(c, {<<"wrapper", c>>, <<"container", c>>})
    /\ last' = OtherStep
    /\ UNCHANGED <<overflow, show_scrollbars, computed, scroll_position, commands,
                   ran, panicked, n_events, n_layouts>>
    /\ UNCHANGED outside_scroll

\* A thumb entity is despawned on its own: VScrollbar / HScrollbar of the
\* container still names it.
DespawnThumb(c, axis) ==
    /\ ~panicked
    /\ ran = {}
    /\ IF axis = "V"
       THEN /\ v_thumb[c].alive
            /\ v_thumb' = [v_thumb EXCEPT ![c].alive = FALSE]
            /\ UNCHANGED h_thumb
       ELSE /\ h_thumb[c].alive
            /\ h_thumb' = [h_thumb EXCEPT ![c].alive = FALSE]
            /\ UNCHANGED v_thumb
    /\ last' = OtherStep
    /\ UNCHANGED <<alive, wrapper, scrollbars, overflow, show_scrollbars, computed,
                   scroll_position, added, v_scrollbar, h_scrollbar, commands, ran,
                   panicked, n_events, n_layouts>>
    /\ UNCHANGED outside_scroll

\* -------------------------------------------------------- spawn_scrollbars

\* The thumb as spawn_scrollbars builds it: 20 percent long, its offset
\* (Node.top, Node.left) left at the default.
SpawnedThumb == [alive |-> TRUE, length |-> Percent(RatInt(SPAWN_THUMB_PERCENT)), offset |-> Auto]

\* Mutant of ScrollbarParent: the scrollbar is made a child of the container.
ScrollbarParentContainer(c) == <<"container", c>>

\* wrapper_entity = child_of.parent(): the scrollbar is added to the
\* children of the container's parent.
ScrollbarParent(c) == <<"wrapper", c>>

\* The scrollbar entity as spawn_scrollbars builds it.
SpawnedScrollbar(c, axis) ==
    [target |-> c, orientation |-> axis, parent |-> ScrollbarParent(c)]

\* Mutant of WantsScrollbar: every pass asks again, for containers that are
\* not new as well.
WantsScrollbarEveryPass(c, axis) ==
    /\ alive[c]
    /\ show_scrollbars[c]
    /\ IF axis = "V" THEN overflow[c].y = "Scroll" ELSE overflow[c].x = "Scroll"

\* Mutant of WantsScrollbar: show_scrollbars is not looked at.
WantsScrollbarAlways(c, axis) ==
    /\ alive[c] /\ added[c]
    /\ IF axis = "V" THEN overflow[c].y = "Scroll" ELSE overflow[c].x = "Scroll"

\* Mutant of WantsScrollbar: a container without the thumb of a scrollable
\* axis gets it at the next pass, new or not.
WantsScrollbarPolled(c, axis) ==
    /\ alive[c]
    /\ show_scrollbars[c]
    /\ IF axis = "V"
       THEN overflow[c].y = "Scroll" /\ ~v_scrollbar[c]
       ELSE overflow[c].x = "Scroll" /\ ~h_scrollbar[c]

\* The scrollbars spawn_scrollbars asks for, for a container it sees as added.
WantsScrollbar(c, axis) ==
    /\ alive[c] /\ added[c]
    /\ show_scrollbars[c]
    /\ IF axis = "V" THEN overflow[c].y = "Scroll" ELSE overflow[c].x = "Scroll"

spawn_scrollbars ==
    /\ ~panicked
    /\ "spawn_scrollbars" \notin ran
    /\ commands' = commands \cup
         {<<c, axis>> \in Containers \X {"V", "H"} : WantsScrollbar(c, axis)}
    /\ added' = [c \in Containers |-> FALSE]
    /\ ran' = ran \cup {"spawn_scrollbars"}
    /\ last' = OtherStep
    /\ UNCHANGED <<alive, wrapper, scrollbars, overflow, show_scrollbars, computed,
                   scroll_position, v_scrollbar, h_scrollbar, v_thumb, h_thumb,
                   panicked, n_events, n_layouts>>
    /\ UNCHANGED outside_scroll

\* The deferred commands are applied when the schedule has run its systems:
\* the scrollbar and its thumb are spawned, VScrollbar / HScrollbar inserted.
ApplyDeferred ==
    /\ ~panicked
    /\ ran = {"spawn_scrollbars", "update_scrollbars"}
    /\ v_scrollbar' = [c \in Containers |-> v_scrollbar[c] \/ <<c, "V">> \in commands]
    /\ h_scrollbar' = [c \in Containers |-> h_scrollbar[c] \/ <<c, "H">> \in commands]
    /\ v_thumb' = [c \in Containers |->
                     IF <<c, "V">> \in commands THEN SpawnedThumb ELSE v_thumb[c]]
    /\ h_thumb' = [c \in Containers |->
                     IF <<c, "H">> \in commands THEN SpawnedThumb ELSE h_thumb[c]]
    /\ scrollbars' = scrollbars (+) SetToBag({SpawnedScrollbar(cmd[1], cmd[2]) : cmd \in commands})
    /\ commands' = {}
    /\ ran' = {}
    /\ last' = OtherStep
    /\ UNCHANGED <<alive, wrapper, overflow, show_scrollbars, computed,
                   scroll_position, added, panicked, n_events, n_layouts>>
    /\ UNCHANGED outside_scroll

\* ------------------------------------------------------- update_scrollbars

\* Mutant of ThumbLength: the minimum length is not applied.
ThumbLengthNoMinimum(content, size) ==
    RatMul(RatClamp(Rat(size, content), RatInt(0), RatInt(1)), RatInt(100))

\* (container_size / content_size).clamp(0, 1) * 100, at least the minimum
ThumbLength(content, size) ==
    RatMax(RatMul(RatClamp(Rat(size, content), RatInt(0), RatInt(1)), RatInt(100)),
           RatInt(SCROLLBAR_MIN_THUMB_SIZE))

\* Mutant of ThumbOffset: the offset ranges over the whole track.
ThumbOffsetWholeTrack(pos, max_scroll, length) ==
    RatMul(RatClamp(Rat(pos, max_scroll), RatInt(0), RatInt(1)), RatInt(100))

\* Mutant of ThumbOffset: the scroll ratio is not clamped to [0, 1].
ThumbOffsetUnclamped(pos, max_scroll, length) ==
    RatMul(Rat(pos, max_scroll), RatSub(RatInt(100), length))

\* (scroll_pos / max_scroll).clamp(0, 1) * (100 - thumb length)
ThumbOffset(pos, max_scroll, length) ==
    RatMul(RatClamp(Rat(pos, max_scroll), RatInt(0), RatInt(1)),
           RatSub(RatInt(100), length))

\* Mutant of UpdatedThumb: without overflow the thumb takes the whole track.
UpdatedThumbWholeTrack(has_scrollbar, thumb, content, size, inv, pos) ==
    LET max_scroll == (content - size) * inv IN
    IF has_scrollbar /\ thumb.alive
    THEN IF max_scroll > 0
         THEN [thumb EXCEPT
                 !.length = Percent(ThumbLength(content, size)),
                 !.offset = Percent(ThumbOffset(pos, max_scroll, ThumbLength(content, size)))]
         ELSE [thumb EXCEPT !.length = Percent(RatInt(100)), !.offset = Percent(RatInt(0))]
    ELSE thumb

\* Mutant of UpdatedThumb: without overflow the thumb is put back to what it
\* was spawned with.
UpdatedThumbResets(has_scrollbar, thumb, content, size, inv, pos) ==
    LET max_scroll == (content - size) * inv IN
    IF has_scrollbar /\ thumb.alive
    THEN IF max_scroll > 0
         THEN [thumb EXCEPT
                 !.length = Percent(ThumbLength(content, size)),
                 !.offset = Percent(ThumbOffset(pos, max_scroll, ThumbLength(content, size)))]
         ELSE [thumb EXCEPT !.length = Percent(RatInt(SPAWN_THUMB_PERCENT)), !.offset = Auto]
    ELSE thumb

\* Mutant of UpdatedThumb: the thumb is written without looking it up.
UpdatedThumbUnchecked(has_scrollbar, thumb, content, size, inv, pos) ==
    LET max_scroll == (content - size) * inv IN
    IF has_scrollbar /\ max_scroll > 0
    THEN [thumb EXCEPT
            !.length = Percent(ThumbLength(content, size)),
            !.offset = Percent(ThumbOffset(pos, max_scroll, ThumbLength(content, size)))]
    ELSE thumb

\* One axis of one container: the thumb's Node after the pass.
UpdatedThumb(has_scrollbar, thumb, content, size, inv, pos) ==
    LET max_scroll == (content - size) * inv IN
    IF has_scrollbar /\ thumb.alive /\ max_scroll > 0
    THEN [thumb EXCEPT
            !.length = Percent(ThumbLength(content, size)),
            !.offset = Percent(ThumbOffset(pos, max_scroll, ThumbLength(content, size)))]
    ELSE thumb

update_scrollbars ==
    /\ ~panicked
    /\ "update_scrollbars" \notin ran
    /\ v_thumb' = [c \in Containers |->
                     IF alive[c]
                     THEN UpdatedThumb(v_scrollbar[c], v_thumb[c], computed[c].content[2],
                                       computed[c].size[2], computed[c].inv,
                                       scroll_position[c][2])
                     ELSE v_thumb[c]]
    /\ h_thumb' = [c \in Containers |->
                     IF alive[c]
                     THEN UpdatedThumb(h_scrollbar[c], h_thumb[c], computed[c].content[1],
                                       computed[c].size[1], computed[c].inv,
                                       scroll_position[c][1])
                     ELSE h_thumb[c]]
    /\ ran' = ran \cup {"update_scrollbars"}
    /\ last' = OtherStep
    /\ UNCHANGED <<alive, wrapper, scrollbars, overflow, show_scrollbars, computed,
                   scroll_position, added, v_scrollbar, h_scrollbar, commands,
                   panicked, n_events, n_layouts>>
    /\ UNCHANGED outside_scroll

\* ---------------------------------------------------------------- dropdown

\* The entities of the world: two dropdowns as dropdown() builds them (the
\* trigger button "t", the options container "o", below it the wrapper "w"
\* and the container "s" of scroll(), and an option "p" in it), one more
\* option "q" and a plain node "r".
Entities ==
    {"d1", "t1", "o1", "w1", "s1", "p1", "d2", "t2", "o2", "w2", "s2", "p2", "q", "r"}

\* The entities with the Dropdown component.
Dropdowns == {"d1", "d2"}
\* The entities with the DropdownTrigger component.
Triggers == {"t1", "t2"}
\* The DropdownOption components: the value of each option entity.
DropdownOption == [e \in {"p1", "p2", "q"} |-> CASE e = "p1" -> "x" [] e = "p2" -> "y" [] e = "q" -> "z"]
\* The entities Activate is sent to: the options and one that is no option.
Activated == {"p1", "p2", "q", "r"}

\* The children of dropdown() and scroll(): every bundle below its parent.
BuiltParent(e) ==
    CASE e = "t1" -> "d1" [] e = "o1" -> "d1" [] e = "w1" -> "o1" [] e = "s1" -> "w1"
      [] e = "p1" -> "s1"
      [] e = "t2" -> "d2" [] e = "o2" -> "d2" [] e = "w2" -> "o2" [] e = "s2" -> "w2"
      [] e = "p2" -> "s2"
      [] OTHER -> "none"

\* Both dropdowns are roots; the option "q" is below the plain node "r" and
\* has no dropdown above it.
FlatHierarchy ==
    [e \in Entities |-> IF e = "q" THEN "r" ELSE BuiltParent(e)]

\* The dropdown "d2" is spawned inside the list of "d1"; "q" is an option
\* of "d2".
NestedHierarchy ==
    [e \in Entities |-> CASE e = "d2" -> "s1" [] e = "q" -> "s2" [] OTHER -> BuiltParent(e)]

Hierarchies == {FlatHierarchy, NestedHierarchy}

\* DropdownProps.initial_value: None, or Some of a value.
InitialValues == {<<>>, <<"x">>}

\* props.initial_value.clone().unwrap_or_else(|| "Select...".to_string())
InitialText(initial_value) == IF initial_value = <<>> THEN "Select..." ELSE initial_value[1]
\* props.initial_value.clone().unwrap_or_default()
InitialSelected(initial_value) == IF initial_value = <<>> THEN "" ELSE initial_value[1]

\* on_option_click is not running.
NoWalk == [pc |-> "idle", current |-> "none", option |-> "none"]

\* What dropdown_last records: the handler or system and the entity of its event.
DropdownStep(op, e) == [op |-> op, e |-> e]

\* The dropdowns as dropdown() builds them from the initial values.
DropdownBuilt(hierarchy, initial) ==
    /\ child_of = hierarchy
    /\ dropdown = [d \in Dropdowns |->
                     [is_open |-> FALSE, selected |-> InitialSelected(initial[d])]]
    /\ dropdown_changed = [d \in Dropdowns |-> TRUE]
    /\ trigger_text = [d \in Dropdowns |-> InitialText(initial[d])]
    /\ options_display = [d \in Dropdowns |-> "None"]
    /\ walk = NoWalk
    /\ value_changes = <<>>
    /\ dropdown_last = DropdownStep("built", "none")

DropdownInit ==
    \E hierarchy \in Hierarchies, initial \in [Dropdowns -> InitialValues] :
        DropdownBuilt(hierarchy, initial)

\* The dropdowns of a world whose dropdowns are not looked at.
DropdownIdle == DropdownBuilt(FlatHierarchy, [d \in Dropdowns |-> <<>>])

\* for child_of in trigger_query.iter(): the dropdowns that are the parent
\* of a trigger, each flipped once per trigger below it.
FlippedByTriggers(d) == Cardinality({t \in Triggers : child_of[t] = d}) % 2 = 1

on_trigger_click(t) ==
    /\ walk.pc = "idle"
    /\ dropdown' = [d \in Dropdowns |->
                      IF FlippedByTriggers(d)
                      THEN [dropdown[d] EXCEPT !.is_open = ~dropdown[d].is_open]
                      ELSE dropdown[d]]
    /\ dropdown_changed' = [d \in Dropdowns |->
                              dropdown_changed[d] \/ \E tr \in Triggers : child_of[tr] = d]
    /\ value_changes' = <<>>
    /\ dropdown_last' = DropdownStep("on_trigger_click", t)
    /\ UNCHANGED <<child_of, trigger_text, options_display, walk>>
    /\ UNCHANGED outside_dropdown

\* on_option_click up to its loop: option_query.get(trigger.entity), which
\* asks for DropdownOption and ChildOf, and current = current_parent.parent().
on_option_click(e) ==
    /\ walk.pc = "idle"
    /\ walk' = IF e \in DOMAIN DropdownOption /\ child_of[e] # "none"
               THEN [pc |-> "loop", current |-> child_of[e], option |-> e]
               ELSE NoWalk
    /\ value_changes' = <<>>
    /\ dropdown_last' = DropdownStep("on_option_click", e)
    /\ UNCHANGED <<child_of, dropdown, dropdown_changed, trigger_text, options_display>>
    /\ UNCHANGED outside_dropdown

\* Mutant of ClickedDropdown: the dropdown is not closed.
ClickedDropdownStaysOpen(d, value) == [d EXCEPT !.selected = value]

\* dropdown.selected = option.value.clone(); dropdown.is_open = false
ClickedDropdown(d, value) == [is_open |-> FALSE, selected |-> value]

\* Mutant of Up: the loop does not move.
UpStays(e) == e

\* current = child_of.parent()
Up(e) == child_of[e]

\* One turn of the loop of on_option_click.
on_option_click_loop ==
    /\ walk.pc = "loop"
    /\ IF walk.current \in Dropdowns
       THEN \* dropdown_query.get_mut(current) is Ok: write, trigger, break
            /\ dropdown' = [dropdown EXCEPT
                              ![walk.current] = ClickedDropdown(@, DropdownOption[walk.option])]
            /\ dropdown_changed' = [dropdown_changed EXCEPT ![walk.current] = TRUE]
            /\ trigger_text' = [d \in Dropdowns |-> DropdownOption[walk.option]]
            /\ value_changes' = Append(value_changes,
                                       [source |-> walk.current,
                                        value |-> DropdownOption[walk.option]])
            /\ walk' = NoWalk
       ELSE IF child_of[walk.current] # "none"
       THEN \* one level up
            /\ walk' = [walk EXCEPT !.current = Up(walk.current)]
            /\ UNCHANGED <<dropdown, dropdown_changed, trigger_text, value_changes>>
       ELSE \* the root, and no dropdown: break
            /\ walk' = NoWalk
            /\ UNCHANGED <<dropdown, dropdown_changed, trigger_text, value_changes>>
    /\ dropdown_last' = DropdownStep("on_option_click", walk.option)
    /\ UNCHANGED <<child_of, options_display>>
    /\ UNCHANGED outside_dropdown

\* Mutant of DisplayFor: the options are always shown.
DisplayForAlwaysFlex(is_open) == "Flex"

\* node.display = if dropdown.is_open { Display::Flex } else { Display::None }
DisplayFor(is_open) == IF is_open THEN "Flex" ELSE "None"

\* The system of PreUpdate, over the dropdowns that changed since it ran
\* last: the child that is no trigger and has DropdownOptions gets the display.
update_dropdown_visibility ==
    /\ walk.pc = "idle"
    /\ options_display' = [d \in Dropdowns |->
                             IF dropdown_changed[d]
                             THEN DisplayFor(dropdown[d].is_open)
                             ELSE options_display[d]]
    /\ dropdown_changed' = [d \in Dropdowns |-> FALSE]
    /\ value_changes' = <<>>
    /\ dropdown_last' = DropdownStep("update_dropdown_visibility", "none")
    /\ UNCHANGED <<child_of, dropdown, trigger_text, walk>>
    /\ UNCHANGED outside_dropdown

\* ------------------------------------------------------------------ solari

\* The asset ids in use, per asset type, and the materials they may hold.
StandardIndices == {1, 2}
ExtendedIndices == {1}
StandardMaterials == {"red", "blue"}
\* An ExtendedMaterial<StandardMaterial, E>: its base and its extension.
ExtendedMaterials == [base : StandardMaterials, extension : {"E"}]

\* AssetId<A>::untyped(): the id together with the type of the asset.
Untyped(type, index) == <<type, index>>

\* The systems of ExtractSchedule that use ResMut<RaytracingMaterialAssets>.
StoreSystems ==
    {"clear_raytracing_materials", "extract_standard_materials",
     "extract_extended_materials"}
\* The systems in the set RaytracingMaterialExtractionSystems::Extract.
ExtractSet ==
    {"extract_standard_materials", "extract_raytracing_instances_standard",
     "extract_extended_materials", "extract_raytracing_instances_extended"}

\* The registrations an app makes while it is built.
Registrations == {"RaytracingScenePlugin::finish", "add_solari_material"}
Required == IF solari_material THEN Registrations ELSE {"RaytracingScenePlugin::finish"}
Running == finished = Required /\ ~render_panicked

\* The mesh entities of the main world: the material handle of each.
StandardInstances == [e \in {"m1"} |-> 1]
ExtendedInstances == [e \in {"m2"} |-> 1]

SolariBuilt(features, material) ==
    /\ features_ok = features
    /\ solari_material = material
    /\ finished = {}
    /\ extract_systems = {}
    /\ clear_before_extract = FALSE
    /\ store_initialised = FALSE
    /\ raytracing_materials = <<>>
    /\ standard_assets = <<>>
    /\ extended_assets = <<>>
    /\ extracted_instances = [e \in {"m1", "m2"} |-> <<>>]
    /\ extract_ran = {}
    /\ render_panicked = FALSE
    /\ solari_last = "built"

SolariInit == \E features \in BOOLEAN, material \in BOOLEAN : SolariBuilt(features, material)

\* The raytracing scene of an app whose renderer is not looked at.
SolariIdle == SolariBuilt(TRUE, FALSE)

\* RaytracingScenePlugin::finish: it returns early without the features.
RaytracingScenePlugin_finish ==
    /\ "RaytracingScenePlugin::finish" \notin finished
    /\ finished' = finished \cup {"RaytracingScenePlugin::finish"}
    /\ IF features_ok
       THEN /\ store_initialised' = TRUE
            /\ clear_before_extract' = TRUE
            /\ extract_systems' = extract_systems \cup
                 {"clear_raytracing_materials", "extract_standard_materials",
                  "extract_raytracing_instances_standard"}
       ELSE UNCHANGED <<store_initialised, clear_before_extract, extract_systems>>
    /\ solari_last' = "RaytracingScenePlugin::finish"
    /\ UNCHANGED <<features_ok, solari_material, raytracing_materials, standard_assets,
                   extended_assets, extracted_instances, extract_ran, render_panicked>>
    /\ UNCHANGED outside_solari

\* App::add_solari_material::<E>(), also as SolariMaterialPlugin::finish
\* calls it.
add_solari_material ==
    /\ solari_material
    /\ "add_solari_material" \notin finished
    /\ finished' = finished \cup {"add_solari_material"}
    /\ extract_systems' = extract_systems \cup
         {"extract_extended_materials", "extract_raytracing_instances_extended"}
    /\ solari_last' = "add_solari_material"
    /\ UNCHANGED <<features_ok, solari_material, clear_before_extract, store_initialised,
                   raytracing_materials, standard_assets, extended_assets,
                   extracted_instances, extract_ran, render_panicked>>
    /\ UNCHANGED outside_solari

\* HashMap::insert for every entry of `entries`.
Inserted(store, entries) ==
    [k \in (DOMAIN store) \cup (DOMAIN entries) |->
        IF k \in DOMAIN entries THEN entries[k] ELSE store[k]]

\* The assets without the one of index i.
Removed(assets, i) == [k \in (DOMAIN assets) \ {i} |-> assets[k]]

\* Between two extract passes the main world adds, changes and removes
\* assets: `assets` is what its Assets<A> of one type becomes.
MainWorld(standard, extended) ==
    /\ Running /\ extract_ran = {}
    /\ standard_assets' = standard
    /\ extended_assets' = extended
    /\ solari_last' = "main world"
    /\ UNCHANGED <<features_ok, solari_material, finished, extract_systems,
                   clear_before_extract, store_initialised, raytracing_materials,
                   extracted_instances, extract_ran, render_panicked>>
    /\ UNCHANGED outside_solari

SetStandardMaterial(i, m) ==
    /\ IF i \in DOMAIN standard_assets THEN standard_assets[i] # m ELSE TRUE
    /\ MainWorld(Inserted(standard_assets, [k \in {i} |-> m]), extended_assets)

RemoveStandardMaterial(i) ==
    /\ i \in DOMAIN standard_assets
    /\ MainWorld(Removed(standard_assets, i), extended_assets)

SetExtendedMaterial(i, m) ==
    /\ IF i \in DOMAIN extended_assets THEN extended_assets[i] # m ELSE TRUE
    /\ MainWorld(standard_assets, Inserted(extended_assets, [k \in {i} |-> m]))

RemoveExtendedMaterial(i) ==
    /\ i \in DOMAIN extended_assets
    /\ MainWorld(standard_assets, Removed(extended_assets, i))

\* The schedule may run a system of the pass: once per pass, and one of the
\* set Extract only after those of the set Clear when the sets are ordered.
MayRun(system) ==
    /\ Running
    /\ system \in extract_systems \ extract_ran
    /\ (system \in ExtractSet /\ clear_before_extract
        /\ "clear_raytracing_materials" \in extract_systems)
          => "clear_raytracing_materials" \in extract_ran

\* A system that asks for ResMut<RaytracingMaterialAssets> runs and leaves
\* the store as `after`; when the resource does not exist its parameters
\* fail validation: the system does not run, and the app panics.
RunsOnStore(system, after) ==
    /\ IF store_initialised
       THEN /\ raytracing_materials' = after
            /\ extract_ran' = extract_ran \cup {system}
            /\ solari_last' = system
            /\ UNCHANGED render_panicked
       ELSE /\ render_panicked' = TRUE
            /\ solari_last' = "panic"
            /\ UNCHANGED <<raytracing_materials, extract_ran>>
    /\ UNCHANGED <<features_ok, solari_material, finished, extract_systems,
                   clear_before_extract, store_initialised, standard_assets,
                   extended_assets, extracted_instances>>
    /\ UNCHANGED outside_solari

\* for (id, material) in materials.iter(): (id.untyped(), material.clone())
StandardEntries ==
    [k \in {Untyped("StandardMaterial", i) : i \in DOMAIN standard_assets}
        |-> standard_assets[k[2]]]

\* for (id, material) in materials.iter(): (id.untyped(), material.base.clone())
ExtendedEntries ==
    [k \in {Untyped("ExtendedMaterial", i) : i \in DOMAIN extended_assets}
        |-> extended_assets[k[2]].base]

\* Mutant of clear_raytracing_materials: the store is left as it is.
clear_raytracing_materials_keeps ==
    /\ MayRun("clear_raytracing_materials")
    /\ RunsOnStore("clear_raytracing_materials", raytracing_materials)

clear_raytracing_materials ==
    /\ MayRun("clear_raytracing_materials")
    /\ RunsOnStore("clear_raytracing_materials", <<>>)

extract_standard_materials ==
    /\ MayRun("extract_standard_materials")
    /\ RunsOnStore("extract_standard_materials",
                   Inserted(raytracing_materials, StandardEntries))

extract_extended_materials ==
    /\ MayRun("extract_extended_materials")
    /\ RunsOnStore("extract_extended_materials",
                   Inserted(raytracing_materials, ExtendedEntries))

\* The instance systems insert ExtractedRaytracingMaterial(material.id().untyped())
\* on the render entity of every mesh of their material type.
ExtractsInstances(system, type, instances) ==
    /\ extract_ran' = extract_ran \cup {system}
    /\ extracted_instances' =
         [e \in DOMAIN extracted_instances |->
            IF e \in DOMAIN instances THEN Untyped(type, instances[e])
            ELSE extracted_instances[e]]
    /\ solari_last' = system
    /\ UNCHANGED <<features_ok, solari_material, finished, extract_systems,
                   clear_before_extract, store_initialised, raytracing_materials,
                   standard_assets, extended_assets, render_panicked>>
    /\ UNCHANGED outside_solari

extract_raytracing_instances_standard ==
    /\ MayRun("extract_raytracing_instances_standard")
    /\ ExtractsInstances("extract_raytracing_instances_standard", "StandardMaterial",
                      StandardInstances)

extract_raytracing_instances_extended ==
    /\ MayRun("extract_raytracing_instances_extended")
    /\ ExtractsInstances("extract_raytracing_instances_extended", "ExtendedMaterial",
                      ExtendedInstances)

\* ExtractSchedule has run all its systems: the pass is over.
EndExtract ==
    /\ Running
    /\ extract_systems # {}
    /\ extract_ran = extract_systems
    /\ extract_ran' = {}
    /\ solari_last' = "EndExtract"
    /\ UNCHANGED <<features_ok, solari_material, finished, extract_systems,
                   clear_before_extract, store_initialised, raytracing_materials,
                   standard_assets, extended_assets, extracted_instances,
                   render_panicked>>
    /\ UNCHANGED outside_solari

\* -------------------------------------------------------------- screenshot
\* Timer::from_seconds(2.0, ..) of ScreenshotPlugin::automated; a frame's
\* delta is a whole number of seconds here.
TimerSeconds == 2
Deltas == 1..TimerSeconds
Paths == {".", "shots"}

\* The values of ScreenshotPlugin: its fields are public, so every
\* combination of timer and exit can be built; default() is (None, false)
\* and automated() is (Some(2.0), true).
ScreenshotPlugins == [path : Paths, timer : BOOLEAN, exit : BOOLEAN]
ScreenshotPlugin_default == [path |-> ".", timer |-> FALSE, exit |-> FALSE]

\* The event TakeScreenshot(exit) and where it was triggered.
TakeScreenshot(exit, source) == [exit |-> exit, source |-> source]

\* ScreenshotPlugin::build: the path, and the resource ScreenshotTimer with
\* the plugin's exit flag only if the plugin's timer is Some.
ScreenshotBuilt(p) ==
    /\ plugin = p
    /\ screenshot_timer = IF p.timer
                          THEN [exists |-> TRUE, left |-> TimerSeconds, exit |-> p.exit]
                          ELSE [exists |-> FALSE, left |-> 0, exit |-> FALSE]
    /\ counter = 0
    /\ screenshots = <<>>
    /\ saved = <<>>
    /\ exit_messages = 0
    /\ screenshot_last = "build"

ScreenshotInit == \E p \in ScreenshotPlugins : ScreenshotBuilt(p)
ScreenshotIdle == ScreenshotBuilt(ScreenshotPlugin_default)

\* format!("{}", n) of a u32: its decimal digits.
RECURSIVE Decimal(_)
Decimal(n) == IF n < 10 THEN <<n>> ELSE Append(Decimal(n \div 10), n % 10)

\* format!("screenshot-{}.png", n)
FileName(n) == <<"screenshot-">> \o Decimal(n) \o <<".png">>

\* Path::new(path).join(file)
Joined(path, file) == <<path, file>>

\* `*counter += 1` of take_screenshot.  The counter is a u32: a run makes at
\* most MaxKeyPresses + 1 requests, far below the 2^32 at which the addition
\* overflows (a panic in a debug build, a wrap to 0 in a release build).
CounterStays(n) == n
CounterNext(n) == n + 1

\* The observer take_screenshot: the file is named after the counter, the
\* counter is incremented, a Screenshot entity is spawned with save_to_disk
\* observing it, and exit_on_capture observes it too if the event's flag is set.
take_screenshot(event) ==
    /\ screenshots' = Append(screenshots,
                             [path          |-> Joined(plugin.path, FileName(counter)),
                              event         |-> event,
                              exit_observer |-> event.exit,
                              captured      |-> FALSE])
    /\ counter' = CounterNext(counter)

\* The app runs its schedules until an AppExit message has been written.
AppRuns == exit_messages = 0

KeyRequests == {i \in DOMAIN screenshots : screenshots[i].event.source = "key"}

\* The event the key system triggers: commands.trigger(TakeScreenshot(false)).
KeyEventExits == TakeScreenshot(TRUE, "key")
KeyEvent == TakeScreenshot(FALSE, "key")

\* The Update system that runs if the key was just pressed.
KeyPressed ==
    /\ AppRuns
    /\ Cardinality(KeyRequests) < MaxKeyPresses
    /\ take_screenshot(KeyEvent)
    /\ screenshot_last' = "key"
    /\ UNCHANGED <<plugin, screenshot_timer, saved, exit_messages>>
    /\ UNCHANGED outside_screenshot

\* Timer::tick of a TimerMode::Once timer: the seconds left after delta.
Ticked(left, delta) == IF left > delta THEN left - delta ELSE 0
\* just_finished: the timer finished during this tick.
JustFinished(left, delta) == left > 0 /\ Ticked(left, delta) = 0

\* The Update system update_timer, added only if the plugin's timer is Some.
update_timer ==
    /\ AppRuns
    /\ screenshot_timer.exists
    /\ \E delta \in Deltas :
          /\ screenshot_timer' = [screenshot_timer EXCEPT !.left = Ticked(@, delta)]
          /\ IF JustFinished(screenshot_timer.left, delta)
             THEN take_screenshot(TakeScreenshot(screenshot_timer.exit, "timer"))
             ELSE UNCHANGED <<screenshots, counter>>
    /\ screenshot_last' = "update_timer"
    /\ UNCHANGED <<plugin, saved, exit_messages>>
    /\ UNCHANGED outside_screenshot

\* ScreenshotCaptured on the Screenshot entity i: save_to_disk writes its path
\* and exit_on_capture, if it observes the entity, writes AppExit::Success.
Captured(i) ==
    /\ i \in DOMAIN screenshots
    /\ ~screenshots[i].captured
    /\ screenshots' = [screenshots EXCEPT ![i].captured = TRUE]
    /\ saved' = Append(saved, screenshots[i].path)
    /\ exit_messages' = IF screenshots[i].exit_observer
                        THEN exit_messages + 1
                        ELSE exit_messages
    /\ screenshot_last' = <<"captured", i>>
    /\ UNCHANGED <<plugin, screenshot_timer, counter>>
    /\ UNCHANGED outside_screenshot

ScreenshotCaptured == \E i \in DOMAIN screenshots : Captured(i)

\* ------------------------------------------------------- the specification

\* The world before anything is spawned.
ScrollInit ==
    /\ alive = [c \in Containers |-> FALSE]
    /\ wrapper = [c \in Containers |-> "none"]
    /\ scrollbars = EmptyBag
    /\ overflow = [c \in Containers |-> [x |-> "Visible", y |-> "Visible"]]
    /\ show_scrollbars = [c \in Containers |-> FALSE]
    /\ computed = [c \in Containers |-> DefaultComputed]
    /\ scroll_position = [c \in Containers |-> <<0, 0>>]
    /\ added = [c \in Containers |-> FALSE]
    /\ v_scrollbar = [c \in Containers |-> FALSE]
    /\ h_scrollbar = [c \in Containers |-> FALSE]
    /\ v_thumb = [c \in Containers |-> NoThumb]
    /\ h_thumb = [c \in Containers |-> NoThumb]
    /\ commands = {}
    /\ ran = {}
    /\ panicked = FALSE
    /\ n_events = 0
    /\ n_layouts = 0
    /\ last = OtherStep

Init == ScrollInit /\ DropdownIdle /\ SolariIdle /\ ScreenshotIdle

Next ==
    \/ \E c \in OneContainer, props \in ScrollProps : SpawnScroll(c, props)
    \/ \E c \in OneContainer, l \in Layouts : Layout(c, l)
    \/ \E c \in OneContainer, ev \in ScrollEvents : scroll_observer(c, ev)
    \/ spawn_scrollbars
    \/ update_scrollbars
    \/ ApplyDeferred

Spec == Init /\ [][Next]_vars

\* A world of two scroll containers, with fewer props, layouts and events
\* to choose from.
TwoProps ==
    { [overflow_x |-> "Scroll", overflow_y |-> "Scroll", show_scrollbars |-> TRUE],
      [overflow_x |-> "Clip", overflow_y |-> "Scroll", show_scrollbars |-> TRUE],
      [overflow_x |-> "Scroll", overflow_y |-> "Visible", show_scrollbars |-> FALSE] }

TwoLayouts ==
    { [content |-> <<300, 1000>>, size |-> <<200, 200>>, inv |-> 1],
      [content |-> <<100, 1000>>, size |-> <<200, 200>>, inv |-> 1] }

TwoEvents == { <<-5, -5>>, <<0, -5>>, <<5, 5>>, <<-5, -10>> }

NextTwo ==
    \/ \E c \in Containers, props \in TwoProps : SpawnScroll(c, props)
    \/ \E c \in Containers, l \in TwoLayouts : Layout(c, l)
    \/ \E c \in Containers, ev \in TwoEvents : scroll_observer(c, ev)
    \/ spawn_scrollbars
    \/ update_scrollbars
    \/ ApplyDeferred

SpecTwo == Init /\ [][NextTwo]_vars

\* The two containers through their whole life: overflow set after the
\* spawn, containers, wrappers and thumbs despawned.
LifeProps ==
    { [overflow_x |-> "Scroll", overflow_y |-> "Scroll", show_scrollbars |-> TRUE],
      [overflow_x |-> "Visible", overflow_y |-> "Scroll", show_scrollbars |-> TRUE] }

LifeLayouts ==
    { [content |-> <<300, 1000>>, size |-> <<200, 200>>, inv |-> 1] }

LifeEvents == { <<-5, -5>> }

NextLife ==
    \/ \E c \in Containers, props \in LifeProps : SpawnScroll(c, props)
    \/ \E c \in Containers, l \in LifeLayouts : Layout(c, l)
    \/ \E c \in Containers, ev \in LifeEvents : scroll_observer(c, ev)
    \/ \E c \in Containers, axis \in {"V", "H"} : SetOverflow(c, axis)
    \/ \E c \in Containers : DespawnContainer(c)
    \/ \E c \in Containers : DespawnWrapper(c)
    \/ \E c \in Containers, axis \in {"V", "H"} : DespawnThumb(c, axis)
    \/ spawn_scrollbars
    \/ update_scrollbars
    \/ ApplyDeferred

SpecLife == Init /\ [][NextLife]_vars

\* The dropdowns alone, in a world without scroll input.
InitDropdown == ScrollInit /\ DropdownInit /\ SolariIdle /\ ScreenshotIdle

NextDropdown ==
    \/ \E t \in Triggers : on_trigger_click(t)
    \/ \E e \in Activated : on_option_click(e)
    \/ on_option_click_loop
    \/ update_dropdown_visibility

SpecDropdown == InitDropdown /\ [][NextDropdown]_vars

\* An observer runs to its end once it is triggered: the loop of
\* on_option_click is not left standing.
SpecDropdownFair == SpecDropdown /\ WF_vars(on_option_click_loop)

\* The render app of bevy_solari, with and without the GPU features and
\* with and without an extended material.
InitSolari == ScrollInit /\ DropdownIdle /\ SolariInit /\ ScreenshotIdle

NextSolari ==
    \/ RaytracingScenePlugin_finish
    \/ add_solari_material
    \/ \E i \in StandardIndices, m \in StandardMaterials : SetStandardMaterial(i, m)
    \/ \E i \in StandardIndices : RemoveStandardMaterial(i)
    \/ \E i \in ExtendedIndices, m \in ExtendedMaterials : SetExtendedMaterial(i, m)
    \/ \E i \in ExtendedIndices : RemoveExtendedMaterial(i)
    \/ clear_raytracing_materials
    \/ extract_standard_materials
    \/ extract_extended_materials
    \/ extract_raytracing_instances_standard
    \/ extract_raytracing_instances_extended
    \/ EndExtract

SpecSolari == InitSolari /\ [][NextSolari]_vars

\* The screenshot helper in an app built with any ScreenshotPlugin.
InitScreenshot == ScrollInit /\ DropdownIdle /\ SolariIdle /\ ScreenshotInit

NextScreenshot ==
    \/ KeyPressed
    \/ update_timer
    \/ ScreenshotCaptured

SpecScreenshot == InitScreenshot /\ [][NextScreenshot]_vars

\* ------------------------------------------------------------- properties
\* In the properties a "delta" is the vector scroll_observer computes first
\* (line 395): the negated event, before scaling and redirection.

Max0(a) == IF a > 0 THEN a ELSE 0

\* scroll_observer took the last step, on container last.c, and found the
\* offset last.pos there.
Scrolled == last.op = "scroll_observer"
PrePos == last.pos
PostPos == scroll_position[last.c]
LastOverflow == overflow[last.c]
LastAxis(i) == IF i = 1 THEN LastOverflow.x ELSE LastOverflow.y
LastMax == MaxOffset(computed[last.c])
LastDelta == Delta(last.ev)
LastEffective == EffectiveDelta(LastOverflow, last.ev)

\* C1: in every reachable state the scroll offset of every container lies,
\* on each axis, in [0, max_offset] with max_offset = max(content_size -
\* viewport_size, 0).
C1_OffsetAlwaysInRange ==
    \A c \in Containers : \A i \in {1, 2} :
        alive[c] =>
            /\ 0 <= scroll_position[c][i]
            /\ scroll_position[c][i] <= Max0(MaxOffset(computed[c])[i])

\* C2: with the geometry as it is (content_size >= viewport_size on the
\* axis) and an offset inside [0, max_offset], a scroll delta handled by
\* scroll_observer leaves the offset inside [0, max_offset]; so does, by
\* induction, every finite sequence of deltas.
C2_DeltaKeepsOffsetInRange ==
    Scrolled =>
        \A i \in {1, 2} :
            (LastMax[i] >= 0 /\ 0 <= PrePos[i] /\ PrePos[i] <= LastMax[i])
                => (0 <= PostPos[i] /\ PostPos[i] <= LastMax[i])

\* C2 witness: the second delta of a sequence overshoots max_offset on an
\* enabled axis and the offset ends exactly on max_offset.
C2_Witness ==
    /\ Scrolled
    /\ n_events = 2
    /\ \E i \in {1, 2} :
        /\ LastAxis(i) = "Scroll"
        /\ 0 < PrePos[i] /\ PrePos[i] < LastMax[i]
        /\ PrePos[i] + LastEffective[i] > LastMax[i]
        /\ PostPos[i] = LastMax[i]

\* C3: on an enabled axis whose offset is strictly inside (0, max_offset),
\* the delta leaves the offset at 0 when offset + delta < 0, at max_offset
\* when offset + delta > max_offset, and at offset + delta otherwise.
C3_ClampedExactly ==
    Scrolled =>
        \A i \in {1, 2} :
            (LastAxis(i) = "Scroll" /\ 0 < PrePos[i] /\ PrePos[i] < LastMax[i])
                => PostPos[i] =
                     (IF PrePos[i] + LastEffective[i] < 0 THEN 0
                      ELSE IF PrePos[i] + LastEffective[i] > LastMax[i] THEN LastMax[i]
                      ELSE PrePos[i] + LastEffective[i])

\* C4: on an enabled axis, an offset already at the boundary in the
\* direction of the effective delta (offset >= max_offset with a positive
\* delta, offset <= 0 with a negative one) is left unchanged.
C4_AtLimitNoOp ==
    Scrolled =>
        \A i \in {1, 2} :
            (/\ LastAxis(i) = "Scroll"
             /\ \/ (LastEffective[i] > 0 /\ PrePos[i] >= LastMax[i])
                \/ (LastEffective[i] < 0 /\ PrePos[i] <= 0))
                => PostPos[i] = PrePos[i]

\* C4 witness: a vertical-only container at offset = max_offset > 0
\* receives the delta (0, 5) and keeps its offset.
C4_Witness ==
    /\ Scrolled
    /\ LastOverflow.x # "Scroll" /\ LastOverflow.y = "Scroll"
    /\ LastDelta = <<0, 5>>
    /\ LastMax[2] > 0
    /\ PrePos[2] = LastMax[2]
    /\ PostPos = PrePos

\* C5: a step of scroll_observer changes no offset on an axis whose overflow
\* mode is not Scroll, no offset of another container, and nothing else of
\* the world (the abort of the process apart).
C5_OnlyEnabledAxesOfTarget ==
    [][n_events' = n_events + 1 =>
        /\ UNCHANGED <<alive, overflow, show_scrollbars, computed, added,
                       v_scrollbar, h_scrollbar, v_thumb, h_thumb, commands, ran,
                       n_layouts>>
        /\ \A c \in Containers :
            /\ c # last'.c => scroll_position'[c] = scroll_position[c]
            /\ overflow[c].x # "Scroll" => scroll_position'[c][1] = scroll_position[c][1]
            /\ overflow[c].y # "Scroll" => scroll_position'[c][2] = scroll_position[c][2]
      ]_vars

\* C5 witness: of two containers, one with only its y axis scrollable (x
\* clips, with content to scroll to) received a delta with both components
\* set; its y moved, its x did not, and the other container, scrolled
\* before, has its offset.
C5_Witness ==
    /\ Scrolled
    /\ alive["a"] /\ alive["b"]
    /\ LastOverflow.x = "Clip" /\ LastOverflow.y = "Scroll"
    /\ LastDelta[1] # 0 /\ LastDelta[2] # 0
    /\ LastMax[1] > 0
    /\ PostPos[2] # PrePos[2]
    /\ PostPos[1] = PrePos[1]
    /\ \E c \in Containers : c # last.c /\ scroll_position[c] # <<0, 0>>

\* C6 as stated: whenever exactly one axis is scroll-enabled and the delta
\* is purely on the other axis, the delta is applied to the enabled axis,
\* in both directions.
C6_RedirectBothWays ==
    Scrolled =>
        LET d == Scaled(LastDelta) IN
        /\ (LastOverflow.x = "Scroll" /\ LastOverflow.y # "Scroll" /\ d[1] = 0 /\ d[2] # 0)
              => PostPos = AxisBlocks(LastOverflow, PrePos, computed[last.c], <<d[2], 0>>)
        /\ (LastOverflow.y = "Scroll" /\ LastOverflow.x # "Scroll" /\ d[2] = 0 /\ d[1] # 0)
              => PostPos = AxisBlocks(LastOverflow, PrePos, computed[last.c], <<0, d[1]>>)

\* C6 amended: a horizontal-only container handles a purely vertical delta
\* as the horizontal delta of the same amount; a vertical-only container is
\* left as it is by a purely horizontal delta.
C6_RedirectVerticalToHorizontalOnly ==
    Scrolled =>
        LET d == Scaled(LastDelta) IN
        /\ (LastOverflow.x = "Scroll" /\ LastOverflow.y # "Scroll" /\ d[1] = 0 /\ d[2] # 0)
              => PostPos = AxisBlocks(LastOverflow, PrePos, computed[last.c], <<d[2], 0>>)
        /\ (LastOverflow.y = "Scroll" /\ LastOverflow.x # "Scroll" /\ d[2] = 0 /\ d[1] # 0)
              => PostPos = PrePos

\* C6 witness: a horizontal-only container moved on x by a purely vertical
\* delta.
C6_Witness ==
    /\ Scrolled
    /\ LastOverflow.x = "Scroll" /\ LastOverflow.y # "Scroll"
    /\ LastDelta[1] = 0 /\ LastDelta[2] # 0
    /\ PostPos[1] # PrePos[1]
    /\ PostPos[2] = PrePos[2]

\* C7: a horizontal-only container that is not at its limit and receives
\* the purely vertical delta (0, 5) has its x offset increased by
\* 5 * LINE_HEIGHT, clamped to [0, max_offset.x], and its y offset untouched.
C7_VerticalDeltaScrollsHorizontalOnly ==
    (/\ Scrolled
     /\ LastOverflow.x = "Scroll" /\ LastOverflow.y # "Scroll"
     /\ LastDelta = <<0, 5>>
     /\ PrePos[1] < LastMax[1])
        => /\ PostPos[1] = (IF PrePos[1] + 5 * 21 > LastMax[1]
                            THEN LastMax[1] ELSE PrePos[1] + 5 * 21)
           /\ PostPos[1] > PrePos[1]
           /\ PostPos[2] = PrePos[2]

\* C7 witness: the case with room for the whole scaled delta.
C7_Witness ==
    /\ Scrolled
    /\ LastOverflow.x = "Scroll" /\ LastOverflow.y # "Scroll"
    /\ LastDelta = <<0, 5>>
    /\ PrePos[1] + 105 < LastMax[1]
    /\ PostPos[1] = PrePos[1] + 105

\* C8: both components of the delta are multiplied by 21 exactly when both
\* have a magnitude below 10; otherwise both are used as they are.  The
\* offset scroll_observer leaves is the one redirection and the axis blocks
\* give for the delta so scaled.
C8_LineScaling ==
    Scrolled =>
        LET d == LastDelta
            scaled == IF Abs(d[1]) < 10 /\ Abs(d[2]) < 10
                      THEN <<21 * d[1], 21 * d[2]>> ELSE d
        IN  PostPos = AxisBlocks(LastOverflow, PrePos, computed[last.c],
                                 Redirected(LastOverflow, scaled))

\* C8 witness: a delta with one component under 10 and the other at 10
\* moved the offset by exactly the unscaled components.
C8_Witness ==
    /\ Scrolled
    /\ LastDelta = <<5, 10>>
    /\ PostPos = <<PrePos[1] + 5, PrePos[2] + 10>>

\* update_scrollbars ran in this pass of PostUpdate, and nothing it reads
\* has changed since.
Updated == "update_scrollbars" \in ran

\* The thumb of container c on an axis ("V": y, "H": x), when it has one.
HasThumb(c, axis) ==
    /\ alive[c]
    /\ IF axis = "V" THEN v_scrollbar[c] /\ v_thumb[c].alive
                     ELSE h_scrollbar[c] /\ h_thumb[c].alive
Thumb(c, axis) == IF axis = "V" THEN v_thumb[c] ELSE h_thumb[c]
AxisIndex(axis) == IF axis = "V" THEN 2 ELSE 1
ContentSize(c, axis) == computed[c].content[AxisIndex(axis)]
ViewportSize(c, axis) == computed[c].size[AxisIndex(axis)]

\* max((viewport_size / content_size) * 100, MIN_THUMB_SIZE)
ExpectedLength(c, axis) ==
    LET pct == Rat(100 * ViewportSize(c, axis), ContentSize(c, axis))
    IN  IF RatLT(pct, <<10, 1>>) THEN <<10, 1>> ELSE pct

\* C9 as stated: after update_scrollbars, for a container with a thumb on
\* the axis and 0 < viewport_size <= content_size, the thumb length is
\* max((viewport_size / content_size) * 100, 10) percent, within [10, 100].
C9_ThumbLengthUpToEqualSizes ==
    Updated =>
        \A c \in Containers : \A axis \in {"V", "H"} :
            (/\ HasThumb(c, axis)
             /\ 0 < ViewportSize(c, axis)
             /\ ViewportSize(c, axis) <= ContentSize(c, axis))
                => /\ Thumb(c, axis).length = Percent(ExpectedLength(c, axis))
                   /\ RatLE(<<10, 1>>, Thumb(c, axis).length.pct)
                   /\ RatLE(Thumb(c, axis).length.pct, <<100, 1>>)

\* C9 amended: the same for 0 < viewport_size < content_size.
C9_ThumbLength ==
    Updated =>
        \A c \in Containers : \A axis \in {"V", "H"} :
            (/\ HasThumb(c, axis)
             /\ 0 < ViewportSize(c, axis)
             /\ ViewportSize(c, axis) < ContentSize(c, axis))
                => /\ Thumb(c, axis).length = Percent(ExpectedLength(c, axis))
                   /\ RatLE(<<10, 1>>, Thumb(c, axis).length.pct)
                   /\ RatLE(Thumb(c, axis).length.pct, <<100, 1>>)

\* C9 witness: a viewport of less than a tenth of the content, the thumb
\* held at the minimum; and one of four fifths, the thumb at 80 percent.
C9_Witness ==
    /\ Updated
    /\ HasThumb("a", "H") /\ HasThumb("a", "V")
    /\ 0 < ViewportSize("a", "H") /\ 10 * ViewportSize("a", "H") < ContentSize("a", "H")
    /\ h_thumb["a"].length = Percent(<<10, 1>>)
    /\ v_thumb["a"].length = Percent(<<80, 1>>)

\* C10: after update_scrollbars, on an axis with max_offset > 0 the thumb
\* offset is clamp(offset / max_offset, 0, 1) * (100 - thumb length)
\* percent; content 1000 and viewport 200 give length 20 and offset 0 at
\* scroll offset 0, length 20 and offset 80 at scroll offset 800.
C10_ThumbOffset ==
    Updated =>
        \A c \in Containers : \A axis \in {"V", "H"} :
            LET i == AxisIndex(axis)
                max == MaxOffset(computed[c])[i]
                pos == scroll_position[c][i]
                ratio == IF pos < 0 THEN <<0, 1>>
                         ELSE IF pos > max THEN <<1, 1>> ELSE Rat(pos, max)
                th == Thumb(c, axis)
            IN  (HasThumb(c, axis) /\ max > 0) =>
                    /\ th.length.kind = "Percent"
                    /\ th.offset = Percent(RatMul(ratio, RatSub(<<100, 1>>, th.length.pct)))
                    /\ (ContentSize(c, axis) = 1000 /\ ViewportSize(c, axis) = 200
                            /\ computed[c].inv = 1 /\ pos = 0)
                         => (th.length = Percent(<<20, 1>>) /\ th.offset = Percent(<<0, 1>>))
                    /\ (ContentSize(c, axis) = 1000 /\ ViewportSize(c, axis) = 200
                            /\ computed[c].inv = 1 /\ pos = 800)
                         => (th.length = Percent(<<20, 1>>) /\ th.offset = Percent(<<80, 1>>))

\* C10 witness: content 1000, viewport 200, scroll offset 800 = max_offset:
\* the thumb is 20 percent long at 80 percent.
C10_Witness ==
    /\ Updated
    /\ HasThumb("a", "V")
    /\ ContentSize("a", "V") = 1000 /\ ViewportSize("a", "V") = 200
    /\ scroll_position["a"][2] = 800
    /\ v_thumb["a"].length = Percent(<<20, 1>>)
    /\ v_thumb["a"].offset = Percent(<<80, 1>>)

UpdateStep == "update_scrollbars" \notin ran /\ "update_scrollbars" \in ran'

\* C12: on an axis with max_offset <= 0 update_scrollbars leaves the
\* thumb's length and offset exactly as they were (last computed, or as
\* spawned); what a thumb holds is never the result of a division by zero.
C12_SkippedWithoutOverflow ==
    [][UpdateStep =>
        \A c \in Containers :
            /\ MaxOffset(computed[c])[2] <= 0 => v_thumb'[c] = v_thumb[c]
            /\ MaxOffset(computed[c])[1] <= 0 => h_thumb'[c] = h_thumb[c]
            /\ v_thumb'[c].length.pct[2] > 0 /\ v_thumb'[c].offset.pct[2] > 0
            /\ h_thumb'[c].length.pct[2] > 0 /\ h_thumb'[c].offset.pct[2] > 0
      ]_vars

\* C12 witness: a thumb computed while the content overflowed keeps those
\* values through a pass of update_scrollbars made with max_offset <= 0.
C12_Witness ==
    /\ Updated
    /\ HasThumb("a", "V")
    /\ MaxOffset(computed["a"])[2] <= 0
    /\ v_thumb["a"].offset.kind = "Percent"
    /\ v_thumb["a"].length # Percent(<<20, 1>>)

\* C20: scroll_observer has no error condition: whatever the delta, the
\* sizes and the offset, it completes and never aborts.
C20_ObserverNeverAborts == ~panicked

\* The step that ends a pass of PostUpdate: the deferred commands are applied.
EndOfPass == ran = {"spawn_scrollbars", "update_scrollbars"} /\ ran' = {}

\* C13: in every frame the thumbs are created, deferred commands included,
\* before update_scrollbars runs: when the pass ends, every thumb of an axis
\* whose content overflows, the thumbs created in this pass included, has
\* the length computed from the geometry.
C13_NewThumbSizedInSameFrame ==
    [][EndOfPass =>
        \A c \in Containers : \A axis \in {"V", "H"} :
            (HasThumb(c, axis)' /\ ContentSize(c, axis) > ViewportSize(c, axis))
                => Thumb(c, axis)'.length = Percent(ExpectedLength(c, axis))
      ]_vars

\* C14: per container and axis the marker goes from absent to present at
\* most once and never back while the container lives; a thumb comes into
\* being only where none has been before; there is never more than one
\* scrollbar of an orientation for a container.
C14_ThumbCreatedAtMostOnce ==
    [][\A c \in Containers :
        /\ (alive[c] /\ alive'[c] /\ v_scrollbar[c]) => v_scrollbar'[c]
        /\ (alive[c] /\ alive'[c] /\ h_scrollbar[c]) => h_scrollbar'[c]
        /\ (~v_thumb[c].alive /\ v_thumb'[c].alive) => (v_thumb[c] = NoThumb /\ ~v_scrollbar[c])
        /\ (~h_thumb[c].alive /\ h_thumb'[c].alive) => (h_thumb[c] = NoThumb /\ ~h_scrollbar[c])
        /\ \A sb \in DOMAIN scrollbars' : scrollbars'[sb] = 1
        /\ \A sb1, sb2 \in DOMAIN scrollbars' :
              (sb1.target = sb2.target /\ sb1.orientation = sb2.orientation) => sb1 = sb2
      ]_vars

\* C14 witness: a container that got both thumbs in its first pass has been
\* through a later pass that computed them, and still has one scrollbar of
\* each orientation.
C14_Witness ==
    /\ HasThumb("a", "V") /\ HasThumb("a", "H")
    /\ v_thumb["a"].offset.kind = "Percent"
    /\ Updated /\ "spawn_scrollbars" \in ran
    /\ \A axis \in {"V", "H"} : CopiesIn(SpawnedScrollbar("a", axis), scrollbars) = 1

\* C15: when spawn_scrollbars has handled a container, the container has
\* the thumb of an axis exactly if show_scrollbars is set and the overflow
\* of the axis is Scroll; the scrollbar of the thumb targets the container
\* and is a child of the container's parent, never of the container.
C15_ThumbIffShownAndScrollable ==
    \A c \in Containers :
        /\ (alive[c] /\ ~added[c] /\ commands = {}) =>
              /\ v_scrollbar[c] <=> (show_scrollbars[c] /\ overflow[c].y = "Scroll")
              /\ h_scrollbar[c] <=> (show_scrollbars[c] /\ overflow[c].x = "Scroll")
        /\ \A axis \in {"V", "H"} :
              (alive[c] /\ IF axis = "V" THEN v_scrollbar[c] ELSE h_scrollbar[c]) <=>
                 (\E sb \in DOMAIN scrollbars : sb.target = c /\ sb.orientation = axis)
        /\ \A sb \in DOMAIN scrollbars :
              sb.target = c => (sb.parent = <<"wrapper", c>> /\ sb.parent # <<"container", c>>)

\* C15 witness: a container with show_scrollbars and only the y axis
\* scrollable has been handled and has the vertical thumb only.
C15_Witness ==
    /\ alive["a"] /\ ~added["a"] /\ commands = {}
    /\ show_scrollbars["a"] /\ overflow["a"].y = "Scroll" /\ overflow["a"].x # "Scroll"
    /\ v_scrollbar["a"] /\ ~h_scrollbar["a"]
    /\ DOMAIN scrollbars = {[target |-> "a", orientation |-> "V", parent |-> <<"wrapper", "a">>]}

\* C16 as stated: thumbs are created lazily: once a pass of spawn_scrollbars
\* has seen a container with show_scrollbars and a scrollable axis, the
\* thumb of that axis exists or is about to, whenever the axis became
\* scrollable.
C16_ThumbWheneverScrollable ==
    \A c \in Containers :
        ("spawn_scrollbars" \in ran /\ alive[c] /\ show_scrollbars[c]) =>
            /\ overflow[c].y = "Scroll" => (v_scrollbar[c] \/ <<c, "V">> \in commands)
            /\ overflow[c].x = "Scroll" => (h_scrollbar[c] \/ <<c, "H">> \in commands)

\* C16 amended: thumbs are created only by the pass that sees the container
\* as just created: for a container that has been seen without the thumb of
\* an axis no thumb is asked for and none is created, also when the axis
\* becomes scrollable.
C16_ThumbOnlyWhenJustCreated ==
    [][\A c \in Containers :
        /\ (alive[c] /\ ~added[c] /\ ~v_scrollbar[c] /\ <<c, "V">> \notin commands)
              => (~v_scrollbar'[c] /\ <<c, "V">> \notin commands')
        /\ (alive[c] /\ ~added[c] /\ ~h_scrollbar[c] /\ <<c, "H">> \notin commands)
              => (~h_scrollbar'[c] /\ <<c, "H">> \notin commands')
      ]_vars

\* C16 witness: a container got its vertical thumb when it was created; its
\* x axis became scrollable later, a pass of spawn_scrollbars has run since,
\* and there is no horizontal thumb and none on the way.
C16_Witness ==
    /\ "spawn_scrollbars" \in ran
    /\ alive["a"] /\ show_scrollbars["a"]
    /\ v_scrollbar["a"]
    /\ overflow["a"].x = "Scroll"
    /\ ~h_scrollbar["a"] /\ <<"a", "H">> \notin commands

\* C17: a container and its thumbs have the same lifetime: no thumb, and no
\* scrollbar, is alive when its container is not.
C17_NoThumbOutlivesContainer ==
    \A c \in Containers :
        /\ (v_thumb[c].alive \/ h_thumb[c].alive) => alive[c]
        /\ \A sb \in DOMAIN scrollbars : sb.target = c => alive[c]

\* C18: a missing or stale reference is skipped without failing the pass:
\* update_scrollbars leaves an axis whose thumb is gone as it is and still
\* computes the other axis and the other containers; a scroll event on an
\* entity without the scroll components changes nothing.
C18_StaleReferenceSkipped ==
    [][/\ UpdateStep =>
            /\ ~panicked'
            /\ \A c \in Containers :
                /\ (v_scrollbar[c] /\ ~v_thumb[c].alive) => v_thumb'[c] = v_thumb[c]
                /\ (h_scrollbar[c] /\ ~h_thumb[c].alive) => h_thumb'[c] = h_thumb[c]
                /\ \A axis \in {"V", "H"} :
                      (HasThumb(c, axis) /\ ContentSize(c, axis) > ViewportSize(c, axis))
                          => Thumb(c, axis)'.length = Percent(ExpectedLength(c, axis))
       /\ (n_events' = n_events + 1 /\ ~alive[last'.c]) =>
            /\ last'.op = "query_miss"
            /\ UNCHANGED <<alive, wrapper, scrollbars, overflow, show_scrollbars,
                           computed, scroll_position, added, v_scrollbar, h_scrollbar,
                           v_thumb, h_thumb, commands, ran, panicked, n_layouts>>
      ]_vars

\* C18 witness: update_scrollbars has run over container "a", whose vertical
\* thumb is gone while VScrollbar still names it, and has computed its
\* horizontal thumb and the vertical thumb of container "b".
C18_Witness ==
    /\ Updated
    /\ alive["a"] /\ v_scrollbar["a"] /\ ~v_thumb["a"].alive
    /\ v_thumb["a"] = [SpawnedThumb EXCEPT !.alive = FALSE]
    /\ HasThumb("a", "H") /\ ContentSize("a", "H") > ViewportSize("a", "H")
    /\ h_thumb["a"].length = Percent(ExpectedLength("a", "H"))
    /\ HasThumb("b", "V") /\ ContentSize("b", "V") > ViewportSize("b", "V")
    /\ v_thumb["b"].length = Percent(ExpectedLength("b", "V"))

\* C19: the scroll offset of a container changes only in a step of
\* scroll_observer for an event on that container: spawn_scrollbars and
\* update_scrollbars never change an offset, and an event on one container
\* never changes the offset of another.
C19_OffsetWrittenOnlyByObserverOfTarget ==
    [][\A c \in Containers :
        scroll_position'[c] # scroll_position[c] =>
            /\ n_events' = n_events + 1
            /\ last'.op = "scroll_observer"
            /\ last'.c = c
      ]_vars

\* C19 witness: two containers scrolled to different offsets have both been
\* through spawn_scrollbars and update_scrollbars with their offsets kept.
C19_Witness ==
    /\ ran = {"spawn_scrollbars", "update_scrollbars"}
    /\ alive["a"] /\ alive["b"]
    /\ scroll_position["a"] # <<0, 0>>
    /\ scroll_position["b"] # <<0, 0>>
    /\ scroll_position["a"] # scroll_position["b"]
    /\ HasThumb("a", "V") /\ v_thumb["a"].offset.kind = "Percent"

\* C28: every living thumb lies inside its track, a freshly spawned one
\* that was never recomputed included: its length is at least
\* SCROLLBAR_MIN_THUMB_SIZE percent, its offset is at least 0 (an offset
\* left at Val::Auto puts the thumb at the start of the track) and offset
\* plus length is at most 100 percent.
C28_ThumbInsideTrack ==
    \A c \in Containers : \A axis \in {"V", "H"} :
        Thumb(c, axis).alive =>
            /\ Thumb(c, axis).length.kind = "Percent"
            /\ RatLE(<<SCROLLBAR_MIN_THUMB_SIZE, 1>>, Thumb(c, axis).length.pct)
            /\ RatLE(<<0, 1>>, Thumb(c, axis).offset.pct)
            /\ RatLE(Thumb(c, axis).offset.pct,
                     RatSub(<<100, 1>>, Thumb(c, axis).length.pct))

\* C28 witness: a thumb recomputed with the offset above max_offset (the
\* content shrank) sits at the very end of its track.
C28_Witness ==
    /\ HasThumb("a", "V")
    /\ MaxOffset(computed["a"])[2] > 0
    /\ scroll_position["a"][2] > MaxOffset(computed["a"])[2]
    /\ Updated
    /\ v_thumb["a"].offset = Percent(RatSub(<<100, 1>>, v_thumb["a"].length.pct))

\* ------------------------------------------------- properties of dropdown

\* The nearest entity with the Dropdown component from e upwards, or "none".
RECURSIVE NearestDropdownFrom(_)
NearestDropdownFrom(e) ==
    IF e = "none" THEN "none"
    ELSE IF e \in Dropdowns THEN e
    ELSE NearestDropdownFrom(child_of[e])

\* The nearest ancestor of an option that is a dropdown, or "none".
NearestDropdown(option) == NearestDropdownFrom(child_of[option])

\* The step in which on_option_click leaves its loop.
WalkEnds == walk.pc = "loop" /\ walk'.pc = "idle"

\* C23: when on_option_click ends for an option that has a Dropdown among
\* its ancestors, the nearest such dropdown has the option's value as
\* selected, is closed, its trigger text is the option's value, and exactly
\* one ValueChange was emitted, on that dropdown, with that value.
C23_OptionSelectsInNearestDropdown ==
    [][(WalkEnds /\ NearestDropdown(walk.option) # "none") =>
         LET d == NearestDropdown(walk.option)
             v == DropdownOption[walk.option]
         IN  /\ dropdown'[d] = [is_open |-> FALSE, selected |-> v]
             /\ trigger_text'[d] = v
             /\ value_changes' = <<[source |-> d, value |-> v]>>
      ]_vars

\* C23 witness: with "d2" nested in the list of "d1", the option "p2" was
\* activated while both were open: "d2" is closed with "y" selected and
\* shown, one ValueChange went to "d2", and "d1" is still open.
C23_Witness ==
    /\ child_of = NestedHierarchy
    /\ dropdown_last = DropdownStep("on_option_click", "p2")
    /\ walk.pc = "idle"
    /\ dropdown["d2"] = [is_open |-> FALSE, selected |-> "y"]
    /\ trigger_text["d2"] = "y"
    /\ value_changes = <<[source |-> "d2", value |-> "y"]>>
    /\ dropdown["d1"].is_open

\* C24: when update_dropdown_visibility has just run, the options of every
\* dropdown are displayed (Flex) exactly if the dropdown is open; a dropdown
\* as built is closed with its options hidden.
C24_OptionsShownIffOpen ==
    /\ dropdown_last.op = "update_dropdown_visibility" =>
          \A d \in Dropdowns : options_display[d] = "Flex" <=> dropdown[d].is_open
    /\ dropdown_last.op = "built" =>
          \A d \in Dropdowns : ~dropdown[d].is_open /\ options_display[d] = "None"

\* C24 witness: after trigger and option activations the system has run
\* with "d1" open and shown and "d2" closed, after a selection, and hidden.
C24_Witness ==
    /\ dropdown_last.op = "update_dropdown_visibility"
    /\ dropdown["d1"].is_open /\ options_display["d1"] = "Flex"
    /\ dropdown["d2"] = [is_open |-> FALSE, selected |-> "y"]
    /\ options_display["d2"] = "None"

\* C25: activating the trigger of one dropdown flips is_open of that
\* dropdown, the parent of the trigger, and of no other dropdown.
C25_TriggerFlipsOwnDropdownOnly ==
    [][dropdown_last'.op = "on_trigger_click" =>
         \A d \in Dropdowns :
            dropdown'[d].is_open =
                IF d = child_of[dropdown_last'.e]
                THEN ~dropdown[d].is_open
                ELSE dropdown[d].is_open
      ]_vars

\* C26: in every state the trigger text of each dropdown is its own
\* selected value, or "Select..." while it has none.
C26_TriggerTextIsOwnSelection ==
    \A d \in Dropdowns :
        trigger_text[d] =
            IF dropdown[d].selected = "" THEN "Select..." ELSE dropdown[d].selected

\* C27: the loop of on_option_click ends; while it runs it has not gone
\* past a Dropdown; when it ends without a Dropdown among the ancestors of
\* the option, no dropdown and no trigger text has changed and no
\* ValueChange was emitted.
C27_AncestorWalkTerminates ==
    /\ (walk.pc = "loop") ~> (walk.pc = "idle")
    /\ [](walk.pc = "loop" =>
            NearestDropdownFrom(walk.current) = NearestDropdown(walk.option))
    /\ [][(WalkEnds /\ NearestDropdown(walk.option) = "none") =>
            (UNCHANGED <<dropdown, dropdown_changed, trigger_text>> /\ value_changes' = <<>>)
         ]_vars

\* C27 witness: the option "q", below the plain root "r", was activated and
\* the loop has ended at the root.
C27_Witness ==
    /\ child_of = FlatHierarchy
    /\ dropdown_last = DropdownStep("on_option_click", "q")
    /\ walk.pc = "idle"
    /\ value_changes = <<>>

\* --------------------------------------------------- properties of solari

\* The materials of the main world as the store should hold them: every
\* StandardMaterial and, when the ExtendedMaterial type was registered with
\* add_solari_material, the base of every ExtendedMaterial, by untyped id.
ExpectedStore ==
    [k \in {<<"StandardMaterial", i>> : i \in DOMAIN standard_assets}
           \cup {<<"ExtendedMaterial", i>> :
                    i \in IF solari_material THEN DOMAIN extended_assets ELSE {}} |->
        IF k[1] = "StandardMaterial"
        THEN standard_assets[k[2]]
        ELSE extended_assets[k[2]].base]

\* C21: in every extract pass a material extraction system runs only after
\* clear_raytracing_materials has run, and when the pass is over the store
\* holds exactly the materials the main world has in this pass, by untyped
\* asset id, and nothing of a material removed before it.
C21_StoreHoldsMaterialsOfLatestPass ==
    [][/\ \A system \in {"extract_standard_materials", "extract_extended_materials"} :
            (system \in extract_ran' /\ system \notin extract_ran)
                => "clear_raytracing_materials" \in extract_ran
       /\ solari_last' = "EndExtract" => raytracing_materials' = ExpectedStore'
      ]_vars

\* C21 witness: a pass has ended with one StandardMaterial and one
\* ExtendedMaterial of the same index in the main world, of different
\* colours, and the store holds these two and no more.
C21_Witness ==
    /\ solari_last = "EndExtract"
    /\ DOMAIN standard_assets = {1}
    /\ DOMAIN extended_assets = {1}
    /\ raytracing_materials =
         [k \in {<<"StandardMaterial", 1>>, <<"ExtendedMaterial", 1>>} |->
            IF k[1] = "StandardMaterial" THEN "blue" ELSE "red"]

\* C29: every system that uses the material store is registered only in an
\* app where the store exists: when the GPU lacks the features, the app
\* that is built has nothing in its extract schedule, also when
\* add_solari_material was used.
C29_NoExtractionWithoutStore ==
    finished = Required =>
        /\ \A system \in extract_systems \cap StoreSystems : store_initialised
        /\ ~features_ok => extract_systems = {}

\* ----------------------------------------------- properties of screenshot
\* C22: the AppExit message is written only by the capture of a screenshot
\* that was requested with the exit flag set; a request of the key has
\* exit = false and its capture writes no AppExit; and an AppExit is written
\* only in an app whose plugin has a timer (and the exit flag).
C22_ExitOnlyAfterFlaggedCapture ==
    /\ [](\A i \in DOMAIN screenshots :
             screenshots[i].event.source = "key"
                => ~screenshots[i].event.exit /\ ~screenshots[i].exit_observer)
    /\ [](exit_messages > 0
             => /\ plugin.timer /\ plugin.exit
                /\ \E i \in DOMAIN screenshots :
                      /\ screenshots[i].captured
                      /\ screenshots[i].event = TakeScreenshot(TRUE, "timer"))
    /\ [][exit_messages' # exit_messages
             => \E i \in DOMAIN screenshots :
                   /\ screenshot_last' = <<"captured", i>>
                   /\ screenshots[i].event.exit
                   /\ screenshots[i].event.source # "key"
                   /\ exit_messages' = exit_messages + 1]_vars

\* A key request and the timer's request with the exit flag are both
\* captured: the exit message was written once.
C22_Witness ==
    /\ plugin.timer /\ plugin.exit
    /\ exit_messages = 1
    /\ \E i, j \in DOMAIN screenshots :
          /\ screenshots[i].event.source = "key" /\ screenshots[i].captured
          /\ screenshots[j].event.source = "timer" /\ screenshots[j].captured
          /\ i < j

\* C30: the n-th request of a run (from 0, of the key or of the timer) has
\* the path <configured path>/screenshot-n.png, no two requests have the same
\* path, and what is saved are the paths of the captured requests.
C30_NthRequestIsScreenshotN ==
    /\ \A i \in DOMAIN screenshots :
          screenshots[i].path = <<plugin.path, <<"screenshot-">> \o Decimal(i - 1) \o <<".png">>>>
    /\ \A i, j \in DOMAIN screenshots :
          i # j => screenshots[i].path # screenshots[j].path
    /\ \A k \in DOMAIN saved :
          \E i \in DOMAIN screenshots : screenshots[i].captured /\ saved[k] = screenshots[i].path
    /\ \A k, l \in DOMAIN saved : k # l => saved[k] # saved[l]

\* Three requests, the timer's among them, all saved.
C30_Witness ==
    /\ Len(screenshots) = 3
    /\ \E i \in DOMAIN screenshots : screenshots[i].event.source = "timer" /\ i < 3
    /\ Len(saved) = 3
    /\ screenshots[3].path = <<plugin.path, <<"screenshot-", 2, ".png">>>>

====
